---- MODULE Spec2Model ----
(***************************************************************************)
(* nwd1-quic: send_frame / recv_frame over one QUIC stream direction.      *)
(*                                                                         *)
(* The stream is the sequence of bytes the peer has written (written), a   *)
(* read cursor (rpos), the peer's FIN (fin) and the transport failure seen *)
(* by the read side (rerr).  recv_frame is an async function: its position *)
(* (pc) is idle, suspended in the header read_exact, or suspended in the   *)
(* body read_exact.  Every completed call appends its return value and the *)
(* cursor positions it started and ended at to calls.                      *)
(*                                                                         *)
(* Spec is the reader against a peer that writes frames and raw bytes.     *)
(* SpecWrite lets the writer's transport fail during send_frame,           *)
(* SpecCancel lets the caller drop a recv_frame future in flight, and      *)
(* SpecLen starts from a header carrying an arbitrary length field.        *)
(***************************************************************************)
EXTENDS Integers, Sequences, FiniteSets, TLC

VARIABLES written, fin, rerr, rpos, sent, pc, start, header, alloc, body, calls

vars == <<written, fin, rerr, rpos, sent, pc, start, header, alloc, body, calls>>

(* ------------------------------ bounds -------------------------------- *)
MaxWrites == 2      \* writes (send_frame or raw peer writes) per behaviour
MaxCalls == 3       \* recv_frame calls per behaviour

(* ----------------------------- constants ------------------------------ *)
HEADER_LEN == 8
MAX_FRAME_LEN == 8 * 1024 * 1024
MAGIC == <<78, 87, 68, 49>>                  \* "NWD1"

(* --------------------------- byte helpers ----------------------------- *)
Min(a, b) == IF a < b THEN a ELSE b

Take(s, n) == SubSeq(s, 1, n)

Drop(s, n) == SubSeq(s, n + 1, Len(s))

\* mutant: the length bytes taken in little-endian order
from_be_bytes_LE(b) == [hi |-> b[4] * 256 + b[3], lo |-> b[2] * 256 + b[1]]

\* mutant: the length bytes read as a signed 32-bit value
from_be_bytes_Signed(b) ==
    [hi |-> b[1] * 256 + b[2] - (IF b[1] >= 128 THEN 65536 ELSE 0),
     lo |-> b[3] * 256 + b[4]]

\* u32::from_be_bytes: the value b1*2^24 + b2*2^16 + b3*2^8 + b4, kept as
\* two 16-bit limbs (hi*2^16 + lo) so that all 2^32 values are representable.
from_be_bytes(b) == [hi |-> b[1] * 256 + b[2], lo |-> b[3] * 256 + b[4]]

\* u32::to_be_bytes of a length that fits the model's integers
to_be_bytes(n) ==
    << (n \div 16777216) % 256, (n \div 65536) % 256, (n \div 256) % 256, n % 256 >>

\* mutant: the cap compared off by one (`len > MAX_FRAME_LEN + 1`)
GreaterThan_OffByOne(u, n) ==
    \/ u.hi > (n + 1) \div 65536
    \/ u.hi = (n + 1) \div 65536 /\ u.lo > (n + 1) % 65536

\* mutant: the cap excludes MAX_FRAME_LEN itself (`len >= MAX_FRAME_LEN`)
GreaterThan_OrEqual(u, n) ==
    \/ u.hi > n \div 65536
    \/ u.hi = n \div 65536 /\ u.lo >= n % 65536

\* `len > MAX_FRAME_LEN` on the limb representation (len as usize: no wrap)
GreaterThan(u, n) ==
    \/ u.hi > n \div 65536
    \/ u.hi = n \div 65536 /\ u.lo > n % 65536

\* mutant: a body buffer one byte longer than declared
AsUsize_PlusOne(u) == u.hi * 65536 + u.lo + 1

\* the usize value of a u32 known to be <= MAX_FRAME_LEN
AsUsize(u) == u.hi * 65536 + u.lo

(* ------------------------------ codec --------------------------------- *)
\* nwd1::Frame: identifier, kind tag, version tag, payload bytes
Payloads == { <<>>, <<112>> }

Frames == [id : {7}, kind : {1}, ver : {1}, payload : Payloads]

NoFrame == [id |-> 0, kind |-> 0, ver |-> 0, payload |-> <<>>]

\* a frame whose encoded body is one byte longer than MAX_FRAME_LEN
BigFrames ==
    [id : {7}, kind : {1}, ver : {1},
     payload : { [i \in 1..(MAX_FRAME_LEN - 2) |-> 0] }]

\* body of the wire image: the fixed fields, then the payload
FIXED_LEN == 3

FrameBody(f) == <<f.id, f.kind, f.ver>> \o f.payload

\* nwd1::encode: magic, big-endian body length, body
encode(f) == MAGIC \o to_be_bytes(Len(FrameBody(f))) \o FrameBody(f)

\* nwd1::decode: rejects a buffer that is not a complete well-formed image
decode(buf) ==
    IF /\ Len(buf) >= HEADER_LEN + FIXED_LEN
       /\ Take(buf, 4) = MAGIC
       /\ from_be_bytes(SubSeq(buf, 5, 8)) = from_be_bytes(to_be_bytes(Len(buf) - HEADER_LEN))
    THEN [ok |-> TRUE,
          frame |-> [id |-> buf[9], kind |-> buf[10], ver |-> buf[11],
                     payload |-> Drop(buf, HEADER_LEN + FIXED_LEN)]]
    ELSE [ok |-> FALSE, frame |-> NoFrame]

(* -------------------------- return values ----------------------------- *)
\* Result<Option<Frame>, std::io::Error>
OkSome(f) == [tag |-> "Some", frame |-> f, kind |-> "", msg |-> "", source |-> ""]

OkNone == [tag |-> "None", frame |-> NoFrame, kind |-> "", msg |-> "", source |-> ""]

\* std::io::Error::new(kind, msg)
IoError(k, m) == [tag |-> "Err", frame |-> NoFrame, kind |-> k, msg |-> m, source |-> ""]

\* quinn::ReadError values the read side can observe
ReadErrors == { "Reset", "ConnectionLost" }

\* mutant: the transport failure replaced by a fresh error that drops it
IoErrorFrom_Dropped(e) ==
    [tag |-> "Err", frame |-> NoFrame, kind |-> "Other", msg |-> "read failed", source |-> ""]

\* std::io::Error::from(quinn::ReadError): the kind is derived, the failure is kept
IoErrorFrom(e) ==
    [tag |-> "Err", frame |-> NoFrame,
     kind |-> IF e = "Reset" THEN "ConnectionReset" ELSE "NotConnected",
     msg |-> "", source |-> e]

\* mutant: FinishedEarly reported as an error instead of Ok(None)
read_exact_opt_EofIsErr(r, e) ==
    CASE r = "Ok"            -> [ok |-> TRUE,  some |-> TRUE,  err |-> OkNone]
      [] r = "FinishedEarly" -> [ok |-> FALSE, some |-> FALSE,
                                 err |-> [tag |-> "Err", frame |-> NoFrame,
                                          kind |-> "UnexpectedEof", msg |-> "", source |-> ""]]
      [] r = "ReadError"     -> [ok |-> FALSE, some |-> FALSE, err |-> IoErrorFrom(e)]

\* read_exact_opt: the three-way result of stream.read_exact mapped to
\* Ok(Some(())), Ok(None), Err(io::Error)
read_exact_opt(r, e) ==
    CASE r = "Ok"            -> [ok |-> TRUE,  some |-> TRUE,  err |-> OkNone]
      [] r = "FinishedEarly" -> [ok |-> TRUE,  some |-> FALSE, err |-> OkNone]
      [] r = "ReadError"     -> [ok |-> FALSE, some |-> FALSE, err |-> IoErrorFrom(e)]

(* --------------------------- peer writes ------------------------------ *)
\* wire images a misbehaving or hostile peer may write (any prefix of them)
BadMagicImage == <<88, 88, 88, 88, 0, 0, 0, 1, 112>>          \* "XXXX", L = 1

TooLargeImage == MAGIC \o <<0, 137, 84, 64>>                  \* L = 9,000,000

JustOverImage == MAGIC \o <<0, 128, 0, 1>>                    \* L = MAX + 1

AtCapImage == MAGIC \o <<0, 128, 0, 0, 7>>                    \* L = MAX

EmptyBodyImage == MAGIC \o <<0, 0, 0, 0>>                     \* L = 0

ShortBodyImage == MAGIC \o <<0, 0, 0, 2, 7, 1>>               \* L = 2 < FIXED_LEN

BadBothImage == <<78, 87, 68, 50, 255, 255, 255, 255>>        \* "NWD2", L = 2^32-1

RawImages ==
    { BadMagicImage, TooLargeImage, JustOverImage, AtCapImage,
      EmptyBodyImage, ShortBodyImage, BadBothImage }

\* a frame cut short at every point of its header and of its body
TruncatedImages ==
    LET img == encode([id |-> 7, kind |-> 1, ver |-> 1, payload |-> <<112>>])
    IN  { Take(img, n) : n \in 1..(Len(img) - 1) }

RawChunks == RawImages \cup TruncatedImages

\* the wire image of a sequence of frames written back-to-back
RECURSIVE Wire(_)
Wire(fs) == IF fs = <<>> THEN <<>> ELSE encode(Head(fs)) \o Wire(Tail(fs))

(* ------------------------------- Init --------------------------------- *)
Init ==
    /\ written = <<>>
    /\ fin = FALSE
    /\ rerr = "none"
    /\ rpos = 0
    /\ sent = <<>>
    /\ pc = "idle"
    /\ start = 0
    /\ header = <<>>
    /\ alloc = -1
    /\ body = <<>>
    /\ calls = <<>>

ReaderVars == <<rpos, pc, start, header, alloc, body, calls>>

(* ------------------------------ writer -------------------------------- *)
\* quinn::WriteError values write_all can fail with
WriteErrors == { "Stopped", "ConnectionLost" }

\* no earlier write on this stream has failed
WriteAlive == \A j \in 1..Len(sent) : sent[j].ret = "Ok"

\* mutant: the stream is finished after the frame is written
send_frame_Finishes(f) ==
    /\ ~fin
    /\ Len(sent) < MaxWrites
    /\ WriteAlive
    /\ LET data == encode(f) IN
          /\ written' = written \o data
          /\ sent' = Append(sent, [frame |-> f, raw |-> FALSE, ret |-> "Ok", n |-> Len(data)])
    /\ fin' = TRUE
    /\ UNCHANGED rerr
    /\ UNCHANGED ReaderVars

\* mutant: the writer enforces the cap and refuses an oversized frame
send_frame_Capped(f) ==
    /\ ~fin
    /\ Len(sent) < MaxWrites
    /\ WriteAlive
    /\ IF FIXED_LEN + Len(f.payload) > MAX_FRAME_LEN
       THEN /\ sent' = Append(sent, [frame |-> f, raw |-> FALSE,
                                     ret |-> "FrameTooLarge", n |-> 0])
            /\ UNCHANGED written
       ELSE LET data == encode(f) IN
               /\ written' = written \o data
               /\ sent' = Append(sent, [frame |-> f, raw |-> FALSE,
                                        ret |-> "Ok", n |-> Len(data)])
    /\ UNCHANGED <<fin, rerr>>
    /\ UNCHANGED ReaderVars

\* send_frame: encode the frame, write_all the bytes; the stream stays open.
\* Every write is logged in sent with its result and the bytes it wrote.
send_frame(f) ==
    /\ ~fin
    /\ Len(sent) < MaxWrites
    /\ WriteAlive
    /\ LET data == encode(f) IN
          /\ written' = written \o data
          /\ sent' = Append(sent, [frame |-> f, raw |-> FALSE, ret |-> "Ok", n |-> Len(data)])
    /\ UNCHANGED <<fin, rerr>>
    /\ UNCHANGED ReaderVars

\* send_frame when write_all fails with e after k bytes went out: `?`
\* returns the error; once a write has failed, later writes fail at once
send_frame_err(f, e, k) ==
    /\ ~fin
    /\ Len(sent) < MaxWrites
    /\ IF WriteAlive THEN TRUE ELSE k = 0 /\ e = sent[Len(sent)].ret
    /\ LET data == encode(f) IN
          /\ k < Len(data)
          /\ written' = written \o Take(data, k)
          /\ sent' = Append(sent, [frame |-> f, raw |-> FALSE, ret |-> e, n |-> k])
    /\ UNCHANGED <<fin, rerr>>
    /\ UNCHANGED ReaderVars

\* the peer writes bytes that did not come from send_frame
PeerWrite(chunk) ==
    /\ ~fin
    /\ Len(sent) < MaxWrites
    /\ written' = written \o chunk
    /\ sent' = Append(sent, [frame |-> NoFrame, raw |-> TRUE, ret |-> "Ok", n |-> Len(chunk)])
    /\ UNCHANGED <<fin, rerr>>
    /\ UNCHANGED ReaderVars

\* the peer half-closes the stream (SendStream::finish)
Finish ==
    /\ ~fin
    /\ fin' = TRUE
    /\ UNCHANGED <<written, rerr, sent>>
    /\ UNCHANGED ReaderVars

\* the transport fails under the reader (stream reset, connection lost)
TransportFail(e) ==
    /\ rerr = "none"
    /\ rerr' = e
    /\ UNCHANGED <<written, fin, sent>>
    /\ UNCHANGED ReaderVars

(* ------------------------------ reader -------------------------------- *)
Avail == Len(written) - rpos

\* mutant: only the first three magic bytes are compared
MagicOk_Three(h) == Take(h, 3) = Take(MAGIC, 3)

\* `&header[..4] != MAGIC`, negated
MagicOk(h) == Take(h, 4) = MAGIC

\* a completed call: its return value, the cursor before and after, the
\* header bytes it read, the body buffer it allocated (-1: none), the number
\* of body bytes it read and what its last stream.read_exact returned
Return(ret, r) ==
    /\ calls' = Append(calls, [ret |-> ret, start |-> start, end |-> rpos,
                               header |-> header, alloc |-> alloc, got |-> Len(body),
                               read |-> r])
    /\ pc' = "idle"
    /\ UNCHANGED <<rpos, start, header, alloc, body>>

\* a buffer of n bytes of which the first Len(got) have been filled
Zeros(n) == [i \in 1..n |-> 0]

Filled(got, n) == got \o Zeros(n - Len(got))

\* mutant: a call may start while another call on the stream is in flight
recv_frame_Shared ==
    /\ Len(calls) < MaxCalls
    /\ pc' = "header"
    /\ start' = rpos
    /\ header' = <<>>
    /\ alloc' = -1
    /\ body' = <<>>
    /\ UNCHANGED <<rpos, calls, written, fin, rerr, sent>>

\* recv_frame is called with the exclusive borrow `&mut RecvStream`, so no
\* other call on the stream is in flight:
\* `let mut header = [0u8; 8]`, then the first read
recv_frame ==
    /\ pc = "idle"
    /\ Len(calls) < MaxCalls
    /\ pc' = "header"
    /\ start' = rpos
    /\ header' = <<>>
    /\ alloc' = -1
    /\ body' = <<>>
    /\ UNCHANGED <<rpos, calls, written, fin, rerr, sent>>

\* mutant: only the body is handed to the codec
Decode_BodyOnly(r) ==
    LET buf == Filled(body, alloc)
        d == decode(buf)
    IN  IF d.ok
        THEN Return(OkSome(d.frame), r)
        ELSE Return(IoError("InvalidData", "nwd1 decode error"), r)

\* lines 64-77: header and body are joined and handed to the codec
Decode(r) ==
    LET buf == Filled(header, HEADER_LEN) \o Filled(body, alloc)
        d == decode(buf)
    IN  IF d.ok
        THEN Return(OkSome(d.frame), r)
        ELSE Return(IoError("InvalidData", "nwd1 decode error"), r)

\* mutant: the length cap is checked before the magic
HeaderResume_LenFirst(r) ==
    LET o == read_exact_opt(r, rerr)
        h == Filled(header, HEADER_LEN)
        len == from_be_bytes(SubSeq(h, 5, 8))
    IN  IF ~o.ok THEN Return(o.err, r)
        ELSE IF ~o.some THEN Return(OkNone, r)
        ELSE IF GreaterThan(len, MAX_FRAME_LEN)
        THEN Return(IoError("InvalidData", "nwd1 frame too large"), r)
        ELSE IF ~MagicOk(h)
        THEN Return(IoError("InvalidData", "nwd1 bad magic"), r)
        ELSE /\ alloc' = AsUsize(len)
             /\ body' = <<>>
             /\ pc' = "body"
             /\ UNCHANGED <<rpos, start, header, calls>>

\* lines 43-59: recv_frame resumes after the header read returned r
HeaderResume(r) ==
    LET o == read_exact_opt(r, rerr)
        h == Filled(header, HEADER_LEN)
        len == from_be_bytes(SubSeq(h, 5, 8))
    IN  IF ~o.ok THEN Return(o.err, r)
        ELSE IF ~o.some THEN Return(OkNone, r)
        ELSE IF ~MagicOk(h)
        THEN Return(IoError("InvalidData", "nwd1 bad magic"), r)
        ELSE IF GreaterThan(len, MAX_FRAME_LEN)
        THEN Return(IoError("InvalidData", "nwd1 frame too large"), r)
        ELSE /\ alloc' = AsUsize(len)
             /\ body' = <<>>
             /\ pc' = "body"
             /\ UNCHANGED <<rpos, start, header, calls>>

\* lines 60-77: recv_frame resumes after the body read returned r
BodyResume(r) ==
    LET o == read_exact_opt(r, rerr)
    IN  IF ~o.ok THEN Return(o.err, r)
        ELSE IF ~o.some THEN Return(OkNone, r)
        ELSE Decode(r)

\* stream.read_exact(&mut header) is polled and takes the bytes that have arrived
HeaderPoll ==
    /\ pc = "header"
    /\ rerr = "none"
    /\ Len(header) < HEADER_LEN
    /\ Avail > 0
    /\ LET k == Min(Avail, HEADER_LEN - Len(header)) IN
          /\ header' = header \o SubSeq(written, rpos + 1, rpos + k)
          /\ rpos' = rpos + k
    /\ UNCHANGED <<pc, start, alloc, body, calls, written, fin, rerr, sent>>

\* the header read completes with all 8 bytes
HeaderFull ==
    /\ pc = "header"
    /\ Len(header) = HEADER_LEN
    /\ HeaderResume("Ok")
    /\ UNCHANGED <<written, fin, rerr, sent>>

\* the stream finished before the header was complete: FinishedEarly
HeaderEnded ==
    /\ pc = "header"
    /\ rerr = "none"
    /\ Len(header) < HEADER_LEN
    /\ Avail = 0
    /\ fin
    /\ HeaderResume("FinishedEarly")
    /\ UNCHANGED <<written, fin, rerr, sent>>

\* the header read failed in the transport: ReadError
HeaderError ==
    /\ pc = "header"
    /\ rerr # "none"
    /\ Len(header) < HEADER_LEN
    /\ HeaderResume("ReadError")
    /\ UNCHANGED <<written, fin, rerr, sent>>

\* mutant: the poll takes everything that has arrived and keeps what fits
BodyPoll_Overread ==
    /\ pc = "body"
    /\ rerr = "none"
    /\ Len(body) < alloc
    /\ Avail > 0
    /\ LET k == Min(Avail, alloc - Len(body)) IN
          /\ body' = body \o SubSeq(written, rpos + 1, rpos + k)
          /\ rpos' = rpos + Avail
    /\ UNCHANGED <<pc, start, header, alloc, calls, written, fin, rerr, sent>>

\* stream.read_exact(&mut body) is polled and takes the bytes that have arrived
BodyPoll ==
    /\ pc = "body"
    /\ rerr = "none"
    /\ Len(body) < alloc
    /\ Avail > 0
    /\ LET k == Min(Avail, alloc - Len(body)) IN
          /\ body' = body \o SubSeq(written, rpos + 1, rpos + k)
          /\ rpos' = rpos + k
    /\ UNCHANGED <<pc, start, header, alloc, calls, written, fin, rerr, sent>>

\* mutant: a zero-length read on a finished stream reports FinishedEarly
BodyFull_EofOnEmpty ==
    /\ pc = "body"
    /\ Len(body) = alloc
    /\ IF alloc = 0 /\ fin /\ Avail = 0
       THEN BodyResume("FinishedEarly")
       ELSE BodyResume("Ok")
    /\ UNCHANGED <<written, fin, rerr, sent>>

\* the body read completes with all `len` bytes (at once when len = 0)
BodyFull ==
    /\ pc = "body"
    /\ Len(body) = alloc
    /\ BodyResume("Ok")
    /\ UNCHANGED <<written, fin, rerr, sent>>

\* the stream finished before the body was complete: FinishedEarly
BodyEnded ==
    /\ pc = "body"
    /\ rerr = "none"
    /\ Len(body) < alloc
    /\ Avail = 0
    /\ fin
    /\ BodyResume("FinishedEarly")
    /\ UNCHANGED <<written, fin, rerr, sent>>

\* the body read failed in the transport: ReadError
BodyError ==
    /\ pc = "body"
    /\ rerr # "none"
    /\ Len(body) < alloc
    /\ BodyResume("ReadError")
    /\ UNCHANGED <<written, fin, rerr, sent>>

\* the entry logged for a call whose future was dropped before it returned
Abandoned == [tag |-> "Abandoned", frame |-> NoFrame, kind |-> "", msg |-> "", source |-> ""]

\* mutant: dropping the call puts the bytes it consumed back on the stream
Abandon_Rewinds ==
    /\ pc # "idle"
    /\ calls' = Append(calls, [ret |-> Abandoned, start |-> start, end |-> start,
                               header |-> header, alloc |-> alloc, got |-> Len(body),
                               read |-> "Pending"])
    /\ pc' = "idle"
    /\ rpos' = start
    /\ UNCHANGED <<start, header, alloc, body>>
    /\ UNCHANGED <<written, fin, rerr, sent>>

\* the caller drops an in-flight recv_frame (a timeout around the call): the
\* local header and body buffers are lost, the stream keeps its cursor
Abandon ==
    /\ pc # "idle"
    /\ Return(Abandoned, "Pending")
    /\ UNCHANGED <<written, fin, rerr, sent>>

Next ==
    \/ \E f \in Frames : send_frame(f)
    \/ \E c \in RawChunks : PeerWrite(c)
    \/ Finish
    \/ \E e \in ReadErrors : TransportFail(e)
    \/ recv_frame
    \/ HeaderPoll
    \/ HeaderEnded
    \/ HeaderError
    \/ HeaderFull
    \/ BodyPoll
    \/ BodyEnded
    \/ BodyError
    \/ BodyFull

Spec == Init /\ [][Next]_vars

\* the reader's steps, shared by every specification
ReaderNext ==
    \/ recv_frame
    \/ HeaderPoll
    \/ HeaderEnded
    \/ HeaderError
    \/ HeaderFull
    \/ BodyPoll
    \/ BodyEnded
    \/ BodyError
    \/ BodyFull

\* the writer's transport may fail: send_frame succeeds or returns the error
NextWrite ==
    \/ \E f \in Frames : send_frame(f)
    \/ \E f \in Frames, e \in WriteErrors, k \in 0..(HEADER_LEN + FIXED_LEN) :
          send_frame_err(f, e, k)
    \/ Finish
    \/ \E e \in ReadErrors : TransportFail(e)
    \/ ReaderNext

SpecWrite == Init /\ [][NextWrite]_vars

\* the caller may abandon a call in flight; the stream carries frames and
\* frames cut short by the peer
NextCancel ==
    \/ \E f \in Frames : send_frame(f)
    \/ \E c \in TruncatedImages : PeerWrite(c)
    \/ Finish
    \/ \E e \in ReadErrors : TransportFail(e)
    \/ ReaderNext
    \/ Abandon

SpecCancel == Init /\ [][NextCancel]_vars

\* byte values for the four length bytes of a header
LenBytes == { 0, 1, 127, 128, 255 }

\* the stream starts with a header of correct magic whose length field is
\* any combination of LenBytes, followed by one body byte
InitLen ==
    /\ \E a \in LenBytes, b \in LenBytes, c \in LenBytes, d \in LenBytes :
          written = MAGIC \o <<a, b, c, d>> \o <<7>>
    /\ sent = << [frame |-> NoFrame, raw |-> TRUE, ret |-> "Ok", n |-> 9] >>
    /\ fin = FALSE
    /\ rerr = "none"
    /\ rpos = 0
    /\ pc = "idle"
    /\ start = 0
    /\ header = <<>>
    /\ alloc = -1
    /\ body = <<>>
    /\ calls = <<>>

NextLen ==
    \/ Finish
    \/ \E e \in ReadErrors : TransportFail(e)
    \/ ReaderNext

SpecLen == InitLen /\ [][NextLen]_vars

TypeOK ==
    /\ fin \in BOOLEAN
    /\ rerr \in ReadErrors \cup {"none"}
    /\ rpos \in 0..Len(written)
    /\ pc \in {"idle", "header", "body"}
    /\ Len(calls) <= MaxCalls

(* ------------------------- claim vocabulary --------------------------- *)
\* the outcome of a call in the words of the error list: the code's
\* io::Error values are told apart by their message and their source
Outcome(ret) ==
    CASE ret.tag = "Some" -> "Frame"
      [] ret.tag = "None" -> "None"
      [] ret.tag = "Err" /\ ret.source # "" -> "TransportReadError"
      [] ret.tag = "Err" /\ ret.msg = "nwd1 bad magic" -> "BadMagic"
      [] ret.tag = "Err" /\ ret.msg = "nwd1 frame too large" -> "FrameTooLarge"
      [] ret.tag = "Err" /\ ret.msg = "nwd1 decode error" -> "DecodeFailed"
      [] ret.tag = "Err" /\ ret.msg = "nwd1 truncated frame" -> "TruncatedFrame"
      [] OTHER -> "Other"

Calls == 1..Len(calls)

\* the call consumed at least a whole header
ReadHeader(c) == c.end - c.start >= 8

\* the 8 bytes on the wire at the position where the call started
WireHeader(c) == SubSeq(written, c.start + 1, c.start + 8)

WireMagicOk(h) == <<h[1], h[2], h[3], h[4]>> = <<78, 87, 68, 49>>

\* the declared length exceeds 8,388,608
WireOver(h) == h[5] > 0 \/ h[6] * 65536 + h[7] * 256 + h[8] > 8388608

\* the declared length, for a header that is not over the cap
WireLen(h) == h[6] * 65536 + h[7] * 256 + h[8]

\* the call read a header with correct magic and a length within the cap
ValidHeader(c) ==
    /\ ReadHeader(c)
    /\ WireMagicOk(WireHeader(c))
    /\ ~WireOver(WireHeader(c))

\* the stream ended cleanly inside the body of call c
BodyCutShort(c) ==
    /\ ValidHeader(c)
    /\ WireLen(WireHeader(c)) > 0
    /\ c.read = "FinishedEarly"
    /\ c.end - c.start - 8 < WireLen(WireHeader(c))

\* the stream ended cleanly after 1..7 header bytes of call c
HeaderCutShort(c) ==
    /\ c.read = "FinishedEarly"
    /\ c.end - c.start \in 1..7

(* ------------------------------ claims -------------------------------- *)
\* C1: a valid header promising L > 0 bytes followed by a clean end of the
\* stream after k < L body bytes makes recv_frame return TruncatedFrame,
\* never None.
C1_TruncatedBodyIsError ==
    \A i \in Calls :
        BodyCutShort(calls[i]) =>
            /\ Outcome(calls[i].ret) = "TruncatedFrame"
            /\ calls[i].ret.tag # "None"

\* C2: a clean end of the stream after 1..7 header bytes makes recv_frame
\* return TruncatedFrame, never None.
C2_TruncatedHeaderIsError ==
    \A i \in Calls :
        HeaderCutShort(calls[i]) =>
            /\ Outcome(calls[i].ret) = "TruncatedFrame"
            /\ calls[i].ret.tag # "None"

\* C3: a call that finds the stream ended with zero further bytes returns
\* Ok(None) and not an error.
C3_CleanEndIsNone ==
    \A i \in Calls :
        (calls[i].read = "FinishedEarly" /\ calls[i].end = calls[i].start)
            => calls[i].ret = OkNone

\* a frame was received and the next call met the end of the stream
C3_Witness ==
    \E i \in Calls :
        /\ i > 1
        /\ calls[i - 1].ret.tag = "Some"
        /\ calls[i].read = "FinishedEarly"
        /\ calls[i].end = calls[i].start
        /\ calls[i].start = Len(written)
        /\ calls[i].ret = OkNone

\* every write so far was a send_frame
OnlyFrames == \A j \in 1..Len(sent) : ~sent[j].raw

\* C4: when the stream carries N frames written by send_frame and nothing
\* else, and the transport has not failed, the completed recv_frame calls
\* are N Some(Frame) results followed by None.
C4_FramesThenNone ==
    (OnlyFrames /\ rerr = "none") =>
        \A i \in Calls :
            IF i <= Len(sent)
            THEN calls[i].ret.tag = "Some"
            ELSE /\ fin
                 /\ calls[i].ret = OkNone

\* two frames were sent, the stream was finished, and three calls returned
C4_Witness ==
    /\ OnlyFrames
    /\ rerr = "none"
    /\ fin
    /\ Len(sent) = 2
    /\ Len(calls) = 3
    /\ calls[1].ret.tag = "Some"
    /\ calls[2].ret.tag = "Some"
    /\ calls[3].ret = OkNone

\* C5: a header whose first 4 bytes differ from the magic makes recv_frame
\* return BadMagic having consumed exactly the 8 header bytes; no body byte
\* is read and no body buffer is allocated, whatever the length field says.
C5_BadMagicStopsAtHeader ==
    /\ \A i \in Calls :
          (ReadHeader(calls[i]) /\ ~WireMagicOk(WireHeader(calls[i]))) =>
              /\ Outcome(calls[i].ret) = "BadMagic"
              /\ calls[i].end - calls[i].start = 8
              /\ calls[i].alloc = -1
              /\ calls[i].got = 0
    /\ (pc = "body") => WireMagicOk(SubSeq(written, start + 1, start + 8))

\* a header with a bad magic and body bytes behind it was rejected
C5_Witness ==
    \E i \in Calls :
        /\ ReadHeader(calls[i])
        /\ ~WireMagicOk(WireHeader(calls[i]))
        /\ Len(written) > calls[i].start + 8
        /\ Outcome(calls[i].ret) = "BadMagic"

\* C6: a header with correct magic and a declared length above 8,388,608
\* makes recv_frame return FrameTooLarge without a body read and without a
\* body buffer.
C6_TooLargeStopsAtHeader ==
    /\ \A i \in Calls :
          (/\ ReadHeader(calls[i])
           /\ WireMagicOk(WireHeader(calls[i]))
           /\ WireOver(WireHeader(calls[i]))) =>
              /\ Outcome(calls[i].ret) = "FrameTooLarge"
              /\ calls[i].end - calls[i].start = 8
              /\ calls[i].alloc = -1
              /\ calls[i].got = 0
    /\ (pc = "body") => ~WireOver(SubSeq(written, start + 1, start + 8))

\* both a length of 9,000,000 and a length of MAX_FRAME_LEN + 1 were rejected
C6_Witness ==
    /\ \E i \in Calls :
          /\ ReadHeader(calls[i])
          /\ WireHeader(calls[i]) = <<78, 87, 68, 49, 0, 137, 84, 64>>
          /\ Outcome(calls[i].ret) = "FrameTooLarge"
    /\ \E i \in Calls :
          /\ ReadHeader(calls[i])
          /\ WireHeader(calls[i]) = <<78, 87, 68, 49, 0, 128, 0, 1>>
          /\ Outcome(calls[i].ret) = "FrameTooLarge"

\* C7: a call that returns Some(Frame) advances the read cursor by exactly
\* 8 + L bytes, L being the length declared in the header it read.
C7_FrameConsumesExactly ==
    \A i \in Calls :
        calls[i].ret.tag = "Some" =>
            /\ ValidHeader(calls[i])
            /\ calls[i].end - calls[i].start = 8 + WireLen(WireHeader(calls[i]))

\* a frame was returned while the bytes of the next frame were already there
C7_Witness ==
    \E i \in Calls :
        /\ calls[i].ret.tag = "Some"
        /\ Len(calls[i].ret.frame.payload) > 0
        /\ Len(written) > calls[i].end
        /\ i < Len(calls)
        /\ calls[i + 1].ret.tag = "Some"

\* C8: when the codec rejects header+body the call returns DecodeFailed with
\* the cursor 8 + L bytes past the start of the rejected frame, and the next
\* call starts there and returns the frame that follows.
C8_DecodeFailedKeepsBoundary ==
    \A i \in Calls :
        Outcome(calls[i].ret) = "DecodeFailed" =>
            /\ ValidHeader(calls[i])
            /\ calls[i].end - calls[i].start = 8 + WireLen(WireHeader(calls[i]))
            /\ i < Len(calls) =>
                  /\ calls[i + 1].start = calls[i].end
                  /\ \A f \in Frames :
                        (/\ calls[i + 1].read = "Ok"
                         /\ Len(written) >= calls[i].end + Len(encode(f))
                         /\ SubSeq(written, calls[i].end + 1,
                                   calls[i].end + Len(encode(f))) = encode(f))
                            => calls[i + 1].ret = OkSome(f)

\* a rejected frame with a non-empty body was followed by a received frame
C8_Witness ==
    \E i \in Calls :
        /\ Outcome(calls[i].ret) = "DecodeFailed"
        /\ calls[i].end - calls[i].start > 8
        /\ i < Len(calls)
        /\ calls[i + 1].ret.tag = "Some"

\* C9: a call whose header read or body read fails in the transport returns
\* TransportReadError carrying that failure, never None or a Frame.
C9_TransportErrorPropagates ==
    \A i \in Calls :
        calls[i].read = "ReadError" =>
            /\ rerr \in ReadErrors
            /\ Outcome(calls[i].ret) = "TransportReadError"
            /\ calls[i].ret.source = rerr

\* one call failed while awaiting the body and another while awaiting the header
C9_Witness ==
    /\ \E i \in Calls :
          /\ calls[i].read = "ReadError"
          /\ calls[i].alloc > 0
          /\ calls[i].got > 0
          /\ Outcome(calls[i].ret) = "TransportReadError"
    /\ \E i \in Calls :
          /\ calls[i].read = "ReadError"
          /\ calls[i].alloc = -1
          /\ Outcome(calls[i].ret) = "TransportReadError"

\* C11: a successful send_frame appends exactly encode(frame) to the bytes
\* written and leaves the stream open; when write_all fails the call returns
\* that error having written only a proper prefix of encode(frame), and
\* writes nothing more.
C11_SendAppendsEncoding ==
    [][ (Len(sent') = Len(sent) + 1 /\ ~sent'[Len(sent')].raw) =>
            LET w == sent'[Len(sent')]
                data == encode(w.frame)
            IN  /\ fin' = FALSE
                /\ IF w.ret = "Ok"
                   THEN written' = written \o data
                   ELSE /\ w.ret \in WriteErrors
                        /\ w.n < Len(data)
                        /\ written' = written \o Take(data, w.n) ]_vars

\* one frame went out whole and the next write failed part-way
C11_Witness ==
    /\ Len(sent) = 2
    /\ sent[1].ret = "Ok"
    /\ sent[2].ret \in WriteErrors
    /\ sent[2].n > HEADER_LEN
    /\ written = encode(sent[1].frame) \o Take(encode(sent[2].frame), sent[2].n)

\* C12: every completed call yields a complete validated Frame, the clean
\* end-of-stream signal, or one of the listed errors; a partially read frame
\* is never reported as a Frame or as the clean end.
C12_NoPartialSuccess ==
    \A i \in Calls :
        /\ Outcome(calls[i].ret) \in
              { "Frame", "None", "TransportReadError", "BadMagic",
                "FrameTooLarge", "TruncatedFrame", "DecodeFailed" }
        /\ calls[i].ret.tag = "None" => calls[i].end = calls[i].start
        /\ calls[i].ret.tag = "Some" =>
              /\ ValidHeader(calls[i])
              /\ calls[i].end - calls[i].start = 8 + WireLen(WireHeader(calls[i]))

\* C13: the magic is validated before the length bound: a header with a
\* wrong magic and a length field above MAX_FRAME_LEN gives BadMagic, never
\* FrameTooLarge.
C13_MagicBeforeLength ==
    \A i \in Calls :
        (/\ ReadHeader(calls[i])
         /\ ~WireMagicOk(WireHeader(calls[i]))
         /\ WireOver(WireHeader(calls[i]))) =>
            /\ Outcome(calls[i].ret) # "FrameTooLarge"
            /\ Outcome(calls[i].ret) = "BadMagic"

\* the header "NWD2" with length 2^32 - 1 was read and rejected for its magic
C13_Witness ==
    \E i \in Calls :
        /\ ReadHeader(calls[i])
        /\ WireHeader(calls[i]) = <<78, 87, 68, 50, 255, 255, 255, 255>>
        /\ Outcome(calls[i].ret) = "BadMagic"

\* the number of bytes the first j writes put on the stream
RECURSIVE WrittenBy(_)
WrittenBy(j) == IF j = 0 THEN 0 ELSE WrittenBy(j - 1) + sent[j].n

\* the stream offsets at which the writes begin and end
Boundaries == { WrittenBy(j) : j \in 0..Len(sent) }

\* a frame written by send_frame begins at offset p
FrameBeginsAt(p) ==
    \E j \in 1..Len(sent) : WrittenBy(j - 1) = p /\ ~sent[j].raw

\* the end of the frame that begins at boundary p
FrameEnd(p) == CHOOSE q \in Boundaries : q > p /\ \A b \in Boundaries : b > p => q <= b

\* call c began at a frame boundary and was abandoned after it had consumed
\* some but not all of that frame's bytes
AbandonedMidFrame(c) ==
    /\ c.ret.tag = "Abandoned"
    /\ FrameBeginsAt(c.start)
    /\ Len(c.header) + c.got > 0
    /\ c.start + Len(c.header) + c.got < FrameEnd(c.start)

\* C14: a recv_frame abandoned after it consumed part of a frame leaves the
\* read cursor where it stopped, off a frame boundary; the next recv_frame
\* starts there, mid-frame, and takes the bytes it finds as its header.
C14_AbandonLeavesCursorMidFrame ==
    \A i \in Calls :
        AbandonedMidFrame(calls[i]) =>
            /\ calls[i].end = calls[i].start + Len(calls[i].header) + calls[i].got
            /\ calls[i].end \notin Boundaries
            /\ (i = Len(calls) /\ pc = "idle") => rpos = calls[i].end
            /\ i < Len(calls) =>
                  /\ calls[i + 1].start = calls[i].end
                  /\ calls[i + 1].header =
                        SubSeq(written, calls[i].end + 1,
                               calls[i].end + Len(calls[i + 1].header))

\* a call was abandoned between its header and its body and the next call
\* read body bytes as a header and rejected them
C14_Witness ==
    \E i \in Calls :
        /\ AbandonedMidFrame(calls[i])
        /\ calls[i].end = calls[i].start + 8
        /\ i < Len(calls)
        /\ Len(calls[i + 1].header) = 8
        /\ calls[i + 1].header[1] = 7
        /\ Outcome(calls[i + 1].ret) = "BadMagic"

C16_CapOnReaderOnly ==
    /\ (sent = <<>> /\ calls = <<>> /\ ~fin) =>
          \A f \in BigFrames :
              ENABLED (/\ send_frame(f)
                       /\ sent'[1].ret = "Ok"
                       /\ sent'[1].n = 8 + 8388609
                       /\ Len(written') = sent'[1].n
                       /\ SubSeq(written', 1, 8) = <<78, 87, 68, 49, 0, 128, 0, 1>>
                       /\ ~fin')
    /\ \A i \in Calls :
          (/\ ReadHeader(calls[i])
           /\ WireHeader(calls[i]) = <<78, 87, 68, 49, 0, 128, 0, 1>>) =>
              /\ Outcome(calls[i].ret) = "FrameTooLarge"
              /\ calls[i].end = calls[i].start + 8

\* the header that send_frame writes for the oversized frame was read at the
\* start of the stream and rejected
C16_Witness ==
    /\ calls # <<>>
    /\ calls[1].start = 0
    /\ calls[1].header = <<78, 87, 68, 49, 0, 128, 0, 1>>
    /\ Outcome(calls[1].ret) = "FrameTooLarge"

\* C17: the body length recv_frame uses is the unsigned big-endian value of
\* header bytes 4..7 for every value of the four bytes: the header is
\* rejected exactly when that value exceeds MAX_FRAME_LEN, and otherwise the
\* body buffer has exactly that many bytes.
C17_LengthIsUnsignedBigEndian ==
    /\ \A i \in Calls :
          (ReadHeader(calls[i]) /\ WireMagicOk(WireHeader(calls[i]))) =>
              IF WireOver(WireHeader(calls[i]))
              THEN /\ Outcome(calls[i].ret) = "FrameTooLarge"
                   /\ calls[i].alloc = -1
              ELSE /\ Outcome(calls[i].ret) # "FrameTooLarge"
                   /\ calls[i].alloc = WireLen(WireHeader(calls[i]))
    /\ pc = "body" =>
          /\ ~WireOver(SubSeq(written, start + 1, start + 8))
          /\ alloc = WireLen(SubSeq(written, start + 1, start + 8))

\* a length with only the top bit set (2^31) was read and rejected
C17_Witness ==
    /\ calls # <<>>
    /\ calls[1].header = <<78, 87, 68, 49, 128, 0, 0, 0>>
    /\ Outcome(calls[1].ret) = "FrameTooLarge"

\* C18: a header with correct magic and a declared length L <= 8,388,608,
\* L = MAX_FRAME_LEN included, is never rejected with FrameTooLarge: the call
\* allocates L bytes and reads the body, and when its reads complete it has
\* read exactly L body bytes.
C18_WithinCapIsAccepted ==
    /\ \A i \in Calls :
          ValidHeader(calls[i]) =>
              /\ Outcome(calls[i].ret) # "FrameTooLarge"
              /\ calls[i].alloc = WireLen(WireHeader(calls[i]))
              /\ calls[i].got <= calls[i].alloc
              /\ calls[i].read = "Ok" => calls[i].got = calls[i].alloc
    /\ pc = "body" =>
          /\ alloc = WireLen(SubSeq(written, start + 1, start + 8))
          /\ Len(body) <= alloc

\* a header declaring exactly MAX_FRAME_LEN was accepted and the call took
\* the body byte that had arrived
C18_Witness ==
    /\ pc = "body"
    /\ header = <<78, 87, 68, 49, 0, 128, 0, 0>>
    /\ alloc = 8388608
    /\ body = <<7>>

\* C19: for a fully delivered header with correct magic and L = 0 the
\* zero-byte body read completes as delivered even when the stream has
\* already ended: the call returns a Frame or DecodeFailed, never None, and
\* has consumed exactly 8 bytes.
C19_EmptyBodyIsNotCleanEnd ==
    \A i \in Calls :
        (ValidHeader(calls[i]) /\ WireLen(WireHeader(calls[i])) = 0) =>
            /\ calls[i].ret.tag # "None"
            /\ Outcome(calls[i].ret) \in { "Frame", "DecodeFailed" }
            /\ calls[i].read = "Ok"
            /\ calls[i].end - calls[i].start = 8
            /\ calls[i].alloc = 0

\* the stream held a header with L = 0 and nothing else, it was finished, the
\* call on the header returned an error and the next call saw the clean end
C19_Witness ==
    /\ fin
    /\ written = <<78, 87, 68, 49, 0, 0, 0, 0>>
    /\ Len(calls) >= 2
    /\ calls[1].end = 8
    /\ Outcome(calls[1].ret) = "DecodeFailed"
    /\ calls[2].ret = OkNone

\* C20: frames are received in the order sent: when the stream carries only
\* frames written by send_frame and no transport failure occurs, the i-th
\* recv_frame returns the i-th frame sent, and the bytes it consumed are
\* exactly the bytes written for that frame.
C20_ReceivedInOrderSent ==
    (OnlyFrames /\ rerr = "none") =>
        \A i \in Calls :
            i <= Len(sent) =>
                /\ calls[i].ret = OkSome(sent[i].frame)
                /\ SubSeq(written, calls[i].start + 1, calls[i].end)
                      = encode(sent[i].frame)
                /\ calls[i].start = Len(Wire([k \in 1..(i - 1) |-> sent[k].frame]))

\* two different frames were sent and received in that order
C20_Witness ==
    /\ OnlyFrames
    /\ rerr = "none"
    /\ Len(sent) = 2
    /\ sent[1].frame # sent[2].frame
    /\ Len(calls) >= 2
    /\ calls[1].ret = OkSome(sent[1].frame)
    /\ calls[2].ret = OkSome(sent[2].frame)

====
